---- MODULE Spec2Model ----
(***************************************************************************)
(* Delivery estimation service: the shared configuration cache             *)
(* (config.py), the Philippine holiday calendar (holidays.py) and the      *)
(* delivery date calculator (calculator.py), the input validators          *)
(* (validators.py) and the delivery_estimate tool (main.py).               *)
(*                                                                         *)
(* Spec                the configuration cache under concurrent callers    *)
(* SpecCalc            calculate_delivery_date, one loop iteration a step  *)
(* SpecCalcFair        SpecCalc with a started calculation kept running    *)
(* SpecCalcPair        the same calculation for J&T and another courier    *)
(* SpecFn              direct calls of the pure functions                  *)
(* SpecHolidays        direct calls of the holiday lists, one at a time    *)
(* SpecHolidayThreads  holiday calls of concurrent threads                 *)
(* SpecEstimate        delivery_estimate requests, step by step            *)
(* SpecTools           refresh_config requests and get_cache_info calls    *)
(***************************************************************************)
EXTENDS Integers, Naturals, Sequences, FiniteSets, TLC

VARIABLES
    \* ---- ConfigCache class attributes (config.py 20-24)
    cache,            \* _cache: NoConfig or a configuration
    cacheTime,        \* _cache_time: NoTime or a timestamp
    cacheTtl,         \* _cache_ttl
    fetchInProgress,  \* _fetch_in_progress
    \* ---- the wall clock read by time.time()
    now,
    \* ---- one get_config activation per thread
    pc,               \* position of each thread inside get_config
    callTime,         \* the local current_time, while it can still be read
    res,              \* what the finished call gave its caller
    \* ---- observation only (no code reads these)
    didFetch,         \* the finished/ongoing call went to the remote source
    overlap,          \* fetchers in flight when the call found the flag set and no snapshot
    doneAt,           \* clock value when the last successful fetch was installed
    \* ---- HolidayCalculator class attributes (holidays.py 15-16)
    holidayCache,     \* _holiday_cache: dict, year -> sorted list of dates
    majorHolidayCache,\* _major_holiday_cache
    \* ---- one calculate_delivery_date activation (calculator.py 200-262)
    calc,
    \* ---- one delivery_estimate request (main.py 28-144)
    est,
    \* ---- one is_holiday activation per thread (holidays.py 173-191)
    hol,
    \* ---- the last direct call of a function: its name, arguments and result
    fn

cacheVars == <<cache, cacheTime, cacheTtl, fetchInProgress, now, pc, callTime,
               res, didFetch, overlap, doneAt>>
calcVars == <<holidayCache, majorHolidayCache, calc>>
callVars == <<est, hol, fn>>
vars == <<cache, cacheTime, cacheTtl, fetchInProgress, now, pc, callTime,
          res, didFetch, overlap, doneAt,
          holidayCache, majorHolidayCache, calc, est, hol, fn>>

(***************************************************************************)
(* Bounds                                                                  *)
(***************************************************************************)
NumThreads == 2
MaxTicks == 2
MaxBaseDays == 3
MaxIterBound == 4
WindowDays == 9

Threads == 1..NumThreads

(***************************************************************************)
(* Text: a Python str is a sequence of one-character strings               *)
(***************************************************************************)
Digits == <<"0", "1", "2", "3", "4", "5", "6", "7", "8", "9">>

IsDigit(ch) == \E i \in 1..10 : Digits[i] = ch

DigitVal(ch) == (CHOOSE i \in 1..10 : Digits[i] = ch) - 1

\* str.split(sep): the pieces between the occurrences of the separator
RECURSIVE SplitOn(_, _)
SplitOn(s, sep) ==
    IF \A i \in 1..Len(s) : s[i] # sep
    THEN <<s>>
    ELSE LET k == CHOOSE i \in 1..Len(s) :
                     s[i] = sep /\ \A j \in 1..(i - 1) : s[j] # sep
         IN <<SubSeq(s, 1, k - 1)>> \o SplitOn(SubSeq(s, k + 1, Len(s)), sep)

\* str.strip() of blanks
RECURSIVE StripBlanks(_)
StripBlanks(s) ==
    IF s = <<>> THEN s
    ELSE IF Head(s) = " " THEN StripBlanks(Tail(s))
    ELSE IF s[Len(s)] = " " THEN StripBlanks(SubSeq(s, 1, Len(s) - 1))
    ELSE s

RECURSIVE DecimalValue(_)
DecimalValue(s) ==
    IF s = <<>> THEN 0
    ELSE 10 * DecimalValue(SubSeq(s, 1, Len(s) - 1)) + DigitVal(s[Len(s)])

\* int(str): blanks stripped, an optional sign, then one or more digits;
\* anything else is a ValueError (ok = FALSE)
ParseInt(s) ==
    LET t == StripBlanks(s)
        signed == t # <<>> /\ Head(t) \in {"+", "-"}
        body == IF signed THEN Tail(t) ELSE t
    IN IF body # <<>> /\ \A i \in 1..Len(body) : IsDigit(body[i])
       THEN [ok |-> TRUE,
             val |-> IF signed /\ Head(t) = "-" THEN 0 - DecimalValue(body)
                     ELSE DecimalValue(body)]
       ELSE [ok |-> FALSE, val |-> 0]

\* hours, minutes = map(int, cutoff_time.split(':')): exactly two pieces, both
\* integers; otherwise a ValueError
ParseHourMinute(s) ==
    LET parts == SplitOn(s, ":")
    IN IF Len(parts) = 2 /\ ParseInt(parts[1]).ok /\ ParseInt(parts[2]).ok
       THEN [ok |-> TRUE, hours |-> ParseInt(parts[1]).val,
             minutes |-> ParseInt(parts[2]).val]
       ELSE [ok |-> FALSE, hours |-> 0, minutes |-> 0]

(***************************************************************************)
(* Configuration values                                                    *)
(* A JSON object is a sequence of [k, v] members; a number or other leaf   *)
(* is [isInt, n]; a mapping or any other JSON value is [isDict, items].    *)
(***************************************************************************)
NoConfig == [none |-> TRUE]
NoTime == -1
Raised == [raised |-> TRUE]

JInt(n) == [isInt |-> TRUE, n |-> n]
JText == [isInt |-> FALSE, n |-> 0]
JDict(items) == [isDict |-> TRUE, items |-> items]
JList == [isDict |-> FALSE, items |-> <<>>]
Member(k, v) == [k |-> k, v |-> v]

Str_1400 == <<"1", "4", ":", "0", "0">>
Str_0930 == <<" ", "9", ":", "3", "0">>
Str_2599 == <<"2", "5", ":", "9", "9">>
Str_noon == <<"n", "o", "o", "n">>

KnownTimezones == {"Asia/Manila", "UTC"}

CouriersA ==
    JDict(<<Member("LBC", JDict(<<Member("ncr", JInt(2)), Member("luzon", JInt(3))>>)),
            Member("J&T", JDict(<<Member("ncr", JInt(1))>>))>>)
CouriersB == JDict(<<Member("JRS", JDict(<<Member("ncr", JInt(4))>>))>>)
CouriersZeroDays == JDict(<<Member("LBC", JDict(<<Member("ncr", JInt(0))>>))>>)
CouriersTextDays == JDict(<<Member("LBC", JDict(<<Member("ncr", JText)>>))>>)
CouriersListRegions == JDict(<<Member("LBC", JList)>>)

(***************************************************************************)
(* The remote sheet (sheetCredential.py)                                   *)
(* A row is [cells, key, str, chars, json, jsonOk]: the number of cells,   *)
(* the stripped first cell, and the stripped second cell read as a zone    *)
(* name, as text, and as json.loads would read it.                         *)
(***************************************************************************)
Row(key, str, chars, json, jsonOk) ==
    [cells |-> 2, key |-> key, str |-> str, chars |-> chars, json |-> json,
     jsonOk |-> jsonOk]
TzRow(name) == Row("timezone", name, <<>>, JList, FALSE)
CutoffRow(chars) == Row("cutoff_time", "", chars, JList, FALSE)
CouriersRow(json) == Row("couriers", "", <<>>, json, TRUE)
BadJsonRow == Row("couriers", "", <<>>, JList, FALSE)
ShortRow == [cells |-> 1, key |-> "couriers", str |-> "", chars |-> <<>>,
             json |-> CouriersZeroDays, jsonOk |-> TRUE]

SheetA == <<TzRow("Asia/Manila"), CutoffRow(Str_1400), CouriersRow(CouriersA)>>
SheetB == <<TzRow("Mars/Base"), ShortRow, CutoffRow(Str_0930), CouriersRow(CouriersB),
            TzRow("UTC")>>
SheetNoCouriers == <<TzRow("Asia/Manila"), CutoffRow(Str_1400)>>
SheetCutoff2599 == <<TzRow("Asia/Manila"), CutoffRow(Str_2599), CouriersRow(CouriersA)>>
SheetCutoffNoon == <<TzRow("Asia/Manila"), CutoffRow(Str_noon), CouriersRow(CouriersA)>>
SheetNoCutoff == <<TzRow("Asia/Manila"), CouriersRow(CouriersA)>>
SheetBadTz == <<TzRow("Mars/Base"), CutoffRow(Str_1400), CouriersRow(CouriersA)>>
SheetZeroDays == <<TzRow("UTC"), CutoffRow(Str_1400), CouriersRow(CouriersZeroDays)>>
SheetTextDays == <<TzRow("UTC"), CutoffRow(Str_1400), CouriersRow(CouriersTextDays)>>
SheetListRegions == <<TzRow("UTC"), CutoffRow(Str_1400), CouriersRow(CouriersListRegions)>>
SheetCouriersList == <<TzRow("UTC"), CutoffRow(Str_1400), CouriersRow(JList)>>
SheetBadJson == <<TzRow("UTC"), CutoffRow(Str_1400), BadJsonRow>>
SheetEmpty == <<>>

Sheets == {SheetA, SheetB, SheetNoCouriers, SheetCutoff2599, SheetCutoffNoon,
           SheetNoCutoff, SheetBadTz, SheetZeroDays, SheetTextDays, SheetListRegions,
           SheetCouriersList, SheetBadJson, SheetEmpty}

\* get_sheet_data(): the rows of the sheet, or an exception (credentials, network)
FetchOutcomes == [ok : {TRUE}, rows : Sheets] \cup {[ok |-> FALSE, rows |-> <<>>]}

\* parse_to_config: every key starts at its default; each row with two cells
\* overwrites its key; json.loads may raise
RECURSIVE ParseRows(_, _)
ParseRows(rows, config) ==
    IF rows = <<>> THEN [ok |-> TRUE, config |-> config]
    ELSE LET row == Head(rows)
         IN IF row.cells < 2 THEN ParseRows(Tail(rows), config)
            ELSE IF row.key = "timezone"
                 THEN ParseRows(Tail(rows), [config EXCEPT !.timezone = row.str])
            ELSE IF row.key = "cutoff_time"
                 THEN ParseRows(Tail(rows), [config EXCEPT !.cutoff_time = row.chars])
            ELSE IF row.key = "couriers"
                 THEN IF row.jsonOk
                      THEN ParseRows(Tail(rows), [config EXCEPT !.couriers = row.json])
                      ELSE [ok |-> FALSE, config |-> config]
            ELSE ParseRows(Tail(rows), config)

parse_to_config(values_list) ==
    ParseRows(values_list,
              [timezone |-> "", cutoff_time |-> <<>>, couriers |-> JDict(<<>>)])

(***************************************************************************)
(* ConfigCache._validate_config (config.py 105-165)                        *)
(***************************************************************************)
required_keys == {"couriers", "cutoff_time", "timezone"}

CutoffTimeValid(cutoff_time) ==
    /\ \E i \in 1..Len(cutoff_time) : cutoff_time[i] = ":"
    /\ LET hm == ParseHourMinute(cutoff_time)
       IN /\ hm.ok
          /\ 0 <= hm.hours /\ hm.hours < 24
          /\ 0 <= hm.minutes /\ hm.minutes < 60

\* variant: a day count of zero is let through
RegionsValid_AllowsZero(regions) ==
    /\ regions.isDict
    /\ \A i \in 1..Len(regions.items) :
           LET days == regions.items[i].v IN days.isInt /\ days.n >= 0

\* config.py 154-162
RegionsValid(regions) ==
    /\ regions.isDict
    /\ \A i \in 1..Len(regions.items) :
           LET days == regions.items[i].v IN days.isInt /\ days.n > 0

_validate_config(config) ==
    /\ \A key \in required_keys : key \in DOMAIN config
    /\ config.couriers.isDict
    /\ Len(config.couriers.items) # 0
    /\ CutoffTimeValid(config.cutoff_time)
    /\ config.timezone \in KnownTimezones
    /\ \A i \in 1..Len(config.couriers.items) :
           RegionsValid(config.couriers.items[i].v)

(***************************************************************************)
(* ConfigCache (config.py 11-218)                                          *)
(* Every "with cls._lock" block is one step; the statements between two    *)
(* blocks are steps of their own, so other threads interleave there.       *)
(***************************************************************************)
DefaultTtl == 600
HalfTtl == DefaultTtl \div 2
TtlChoices == {0 - HalfTtl, 0, DefaultTtl}

InitCache ==
    /\ cache = NoConfig
    /\ cacheTime = NoTime
    /\ cacheTtl = DefaultTtl
    /\ fetchInProgress = FALSE
    /\ now = 0
    /\ pc = [t \in Threads |-> "idle"]
    /\ callTime = [t \in Threads |-> NoTime]
    /\ res = [t \in Threads |-> NoConfig]
    /\ didFetch = [t \in Threads |-> FALSE]
    /\ overlap = [t \in Threads |-> {}]
    /\ doneAt = NoTime

\* config.py 42-45: the cached snapshot is served
CacheIsValid(force_refresh, current_time) ==
    /\ ~force_refresh
    /\ cache # NoConfig
    /\ cacheTime # NoTime
    /\ (current_time - cacheTime) < cacheTtl

\* the call ends: its locals go out of scope, the caller holds the result
Finish(t, value) ==
    /\ pc' = [pc EXCEPT ![t] = "done"]
    /\ res' = [res EXCEPT ![t] = value]
    /\ callTime' = [callTime EXCEPT ![t] = NoTime]

\* variant: a caller that finds the flag set but no snapshot fetches as well
GetConfigLocked_FetchWhenEmpty(t, force_refresh) ==
    /\ pc[t] = "idle"
    /\ IF CacheIsValid(force_refresh, now)
       THEN /\ Finish(t, cache)
            /\ UNCHANGED <<fetchInProgress, didFetch>>
       ELSE IF fetchInProgress /\ cache # NoConfig
       THEN /\ Finish(t, cache)
            /\ UNCHANGED <<fetchInProgress, didFetch>>
       ELSE /\ fetchInProgress' = TRUE
            /\ pc' = [pc EXCEPT ![t] = "fetching"]
            /\ callTime' = [callTime EXCEPT ![t] = now]
            /\ didFetch' = [didFetch EXCEPT ![t] = TRUE]
            /\ UNCHANGED res
    /\ overlap' = [overlap EXCEPT ![t] =
                      IF cache = NoConfig /\ fetchInProgress
                      THEN {a \in Threads : pc[a] = "fetching"} ELSE {}]
    /\ UNCHANGED <<cache, cacheTime, cacheTtl, now, doneAt>>
    /\ UNCHANGED <<calcVars, callVars>>

\* variant: force_refresh does not look at the in-flight flag
GetConfigLocked_ForceIgnoresFlag(t, force_refresh) ==
    /\ pc[t] = "idle"
    /\ IF CacheIsValid(force_refresh, now)
       THEN /\ Finish(t, cache)
            /\ UNCHANGED <<fetchInProgress, didFetch>>
       ELSE IF fetchInProgress /\ ~force_refresh
       THEN /\ Finish(t, cache)
            /\ UNCHANGED <<fetchInProgress, didFetch>>
       ELSE /\ fetchInProgress' = TRUE
            /\ pc' = [pc EXCEPT ![t] = "fetching"]
            /\ callTime' = [callTime EXCEPT ![t] = now]
            /\ didFetch' = [didFetch EXCEPT ![t] = TRUE]
            /\ UNCHANGED res
    /\ overlap' = [overlap EXCEPT ![t] =
                      IF cache = NoConfig /\ fetchInProgress
                      THEN {a \in Threads : pc[a] = "fetching"} ELSE {}]
    /\ UNCHANGED <<cache, cacheTime, cacheTtl, now, doneAt>>
    /\ UNCHANGED <<calcVars, callVars>>

\* config.py 38-55: the first locked block
GetConfigLocked(t, force_refresh) ==
    /\ pc[t] = "idle"
    /\ IF CacheIsValid(force_refresh, now)
       THEN /\ Finish(t, cache)
            /\ UNCHANGED <<fetchInProgress, didFetch>>
       ELSE IF fetchInProgress
       THEN /\ Finish(t, cache)
            /\ UNCHANGED <<fetchInProgress, didFetch>>
       ELSE /\ fetchInProgress' = TRUE
            /\ pc' = [pc EXCEPT ![t] = "fetching"]
            /\ callTime' = [callTime EXCEPT ![t] = now]
            /\ didFetch' = [didFetch EXCEPT ![t] = TRUE]
            /\ UNCHANGED res
    /\ overlap' = [overlap EXCEPT ![t] =
                      IF cache = NoConfig /\ fetchInProgress
                      THEN {a \in Threads : pc[a] = "fetching"} ELSE {}]
    /\ UNCHANGED <<cache, cacheTime, cacheTtl, now, doneAt>>
    /\ UNCHANGED <<calcVars, callVars>>

\* config.py 86-90: the snapshot is installed with the time read at line 39
InstallSnapshot(t, config) ==
    /\ cache' = config
    /\ cacheTime' = callTime[t]
    /\ fetchInProgress' = FALSE
    /\ doneAt' = now
    /\ Finish(t, config)

\* config.py 58-92 and 94-97: the remote fetch ends.  Parsing and validation
\* touch only locals, so they are taken together with the locked block that
\* follows them: the install (86-92), the flag cleared after empty data or a
\* failed validation (62-65, 75-78), or the flag cleared by the exception
\* handler (94-97) when get_sheet_data or parse_to_config raised.
GetConfigFetched(t, outcome) ==
    /\ pc[t] = "fetching"
    /\ LET parsed == parse_to_config(outcome.rows)
           raised == ~outcome.ok \/ (outcome.rows # <<>> /\ ~parsed.ok)
           rejected == outcome.rows = <<>> \/ ~_validate_config(parsed.config)
       IN IF raised
          THEN /\ fetchInProgress' = FALSE
               /\ pc' = [pc EXCEPT ![t] = "handler_check"]
               /\ UNCHANGED <<cache, cacheTime, doneAt, res>>
               /\ callTime' = [callTime EXCEPT ![t] = NoTime]
          ELSE IF rejected
          THEN /\ fetchInProgress' = FALSE
               /\ pc' = [pc EXCEPT ![t] = "fail_check"]
               /\ UNCHANGED <<cache, cacheTime, doneAt, res>>
               /\ callTime' = [callTime EXCEPT ![t] = NoTime]
          ELSE InstallSnapshot(t, parsed.config)
    /\ UNCHANGED <<cacheTtl, now, didFetch, overlap>>
    /\ UNCHANGED <<calcVars, callVars>>

\* config.py 67-70 and 80-83: the stale snapshot, or a ValueError raised inside
\* the try block, which the handler at line 94 catches
GetConfigFailCheck(t) ==
    /\ pc[t] = "fail_check"
    /\ IF cache # NoConfig
       THEN Finish(t, cache)
       ELSE /\ pc' = [pc EXCEPT ![t] = "handler_clear"]
            /\ UNCHANGED <<res, callTime>>
    /\ UNCHANGED <<cache, cacheTime, cacheTtl, fetchInProgress, now, didFetch,
                   overlap, doneAt>>
    /\ UNCHANGED <<calcVars, callVars>>

\* config.py 94-97: the exception handler clears the flag
GetConfigHandlerClear(t) ==
    /\ pc[t] = "handler_clear"
    /\ fetchInProgress' = FALSE
    /\ pc' = [pc EXCEPT ![t] = "handler_check"]
    /\ UNCHANGED <<cache, cacheTime, cacheTtl, now, callTime, res,
                   didFetch, overlap, doneAt>>
    /\ UNCHANGED <<calcVars, callVars>>

\* variant: the handler returns the cache whether or not there is one
GetConfigHandlerCheck_ReturnsNone(t) ==
    /\ pc[t] = "handler_check"
    /\ Finish(t, cache)
    /\ UNCHANGED <<cache, cacheTime, cacheTtl, fetchInProgress, now, didFetch,
                   overlap, doneAt>>
    /\ UNCHANGED <<calcVars, callVars>>

\* config.py 99-102: the stale snapshot, or the exception goes to the caller
GetConfigHandlerCheck(t) ==
    /\ pc[t] = "handler_check"
    /\ IF cache # NoConfig THEN Finish(t, cache) ELSE Finish(t, Raised)
    /\ UNCHANGED <<cache, cacheTime, cacheTtl, fetchInProgress, now, didFetch,
                   overlap, doneAt>>
    /\ UNCHANGED <<calcVars, callVars>>

\* the caller has taken the result; the thread is free for its next request
GetConfigReturn(t) ==
    /\ pc[t] = "done"
    /\ pc' = [pc EXCEPT ![t] = "idle"]
    /\ res' = [res EXCEPT ![t] = NoConfig]
    /\ didFetch' = [didFetch EXCEPT ![t] = FALSE]
    /\ overlap' = [a \in Threads |-> IF a = t THEN {} ELSE overlap[a] \ {t}]
    /\ UNCHANGED <<cache, cacheTime, cacheTtl, fetchInProgress, now, callTime,
                   doneAt>>
    /\ UNCHANGED <<calcVars, callVars>>

\* config.py 168-173
ConfigCache_clear_cache ==
    /\ cache' = NoConfig
    /\ cacheTime' = NoTime
    /\ doneAt' = NoTime
    /\ UNCHANGED <<cacheTtl, fetchInProgress, now, pc, callTime, res,
                   didFetch, overlap>>
    /\ UNCHANGED <<calcVars, callVars>>

\* config.py 176-189: a negative value is ignored
set_cache_ttl(ttl_seconds) ==
    /\ cacheTtl' = IF ttl_seconds < 0 THEN cacheTtl ELSE ttl_seconds
    /\ UNCHANGED <<cache, cacheTime, fetchInProgress, now, pc, callTime,
                   res, didFetch, overlap, doneAt>>
    /\ UNCHANGED <<calcVars, callVars>>

\* time.time() advances
Tick ==
    /\ now < MaxTicks * HalfTtl
    /\ now' = now + HalfTtl
    /\ UNCHANGED <<cache, cacheTime, cacheTtl, fetchInProgress, pc, callTime,
                   res, didFetch, overlap, doneAt>>
    /\ UNCHANGED <<calcVars, callVars>>

(***************************************************************************)
(* Calendar dates (datetime.date as the code uses it): a date is its       *)
(* proleptic Gregorian ordinal, so that date + timedelta(days=1) is +1 and *)
(* comparison of dates is comparison of numbers.                           *)
(***************************************************************************)
IsLeap(y) == y % 4 = 0 /\ (y % 100 # 0 \/ y % 400 = 0)

DaysInMonth(y, m) ==
    IF m = 2 THEN (IF IsLeap(y) THEN 29 ELSE 28)
    ELSE IF m \in {4, 6, 9, 11} THEN 30 ELSE 31

RECURSIVE DaysBeforeMonth(_, _)
DaysBeforeMonth(y, m) ==
    IF m = 1 THEN 0 ELSE DaysBeforeMonth(y, m - 1) + DaysInMonth(y, m - 1)

DaysBeforeYear(y) ==
    (y - 1) * 365 + ((y - 1) \div 4) - ((y - 1) \div 100) + ((y - 1) \div 400)

\* datetime(year, month, day).date()
Date(y, m, d) == DaysBeforeYear(y) + DaysBeforeMonth(y, m) + d

ValidDate(y, m, d) == m \in 1..12 /\ d >= 1 /\ d <= DaysInMonth(y, m)

\* date.year
YearOf(date) ==
    CHOOSE y \in (date \div 366)..((date \div 365) + 1) :
        DaysBeforeYear(y) < date /\ date <= DaysBeforeYear(y + 1)

\* date.weekday(): Monday is 0, Sunday is 6
Weekday(date) == (date + 6) % 7

\* sorted(list(set(dates))): the i-th element has i - 1 elements below it
SortedList(S) ==
    [i \in 1..Cardinality(S) |->
        CHOOSE x \in S : Cardinality({y \in S : y < x}) = i - 1]

ListToSet(list) == {list[i] : i \in 1..Len(list)}

(***************************************************************************)
(* HolidayCalculator (holidays.py 12-249)                                  *)
(***************************************************************************)
\* holidays.py 19-55: the anonymous Gregorian computus, with the April 15
\* fallback of the exception handler
_calculate_easter(year) ==
    LET a == year % 19
        b == year \div 100
        c == year % 100
        d == b \div 4
        e == b % 4
        f == (b + 8) \div 25
        g == (b - f + 1) \div 3
        h == (19 * a + b - d - g + 15) % 30
        i == c \div 4
        k == c % 4
        l == (32 + 2 * e + 2 * i - h - k) % 7
        m == (a + 11 * h + 22 * l) \div 451
        month == (h + l - 7 * m + 114) \div 31
        day == ((h + l - 7 * m + 114) % 31) + 1
    IN IF ValidDate(year, month, day) THEN Date(year, month, day)
       ELSE Date(year, 4, 15)

\* variant: the three days end on Easter Sunday itself
_get_holy_week_dates_ToSunday(year) ==
    LET easter_sunday == _calculate_easter(year)
    IN <<easter_sunday - 2, easter_sunday - 1, easter_sunday>>

\* holidays.py 58-79: Maundy Thursday, Good Friday, Black Saturday
_get_holy_week_dates(year) ==
    LET easter_sunday == _calculate_easter(year)
    IN <<easter_sunday - 3, easter_sunday - 2, easter_sunday - 1>>

\* variant: the list is sorted but duplicates are kept
BuildPhHolidays_KeepsDuplicates(year) ==
    LET holidays == <<Date(year, 1, 1), Date(year, 4, 9), Date(year, 5, 1),
                      Date(year, 6, 12), Date(year, 8, 21), Date(year, 8, 25),
                      Date(year, 11, 1), Date(year, 11, 30), Date(year, 12, 25),
                      Date(year, 12, 30), Date(year, 12, 31)>>
        holy_week == _get_holy_week_dates(year)
        before(d) == {h \in ListToSet(holidays) : h < d}
        after(d) == {h \in ListToSet(holidays) : h >= d}
    IN SortedList(before(holy_week[1])) \o holy_week
           \o SortedList(after(holy_week[1]))

\* holidays.py 100-120: the list built when the year is not cached
BuildPhHolidays(year) ==
    LET holidays == <<Date(year, 1, 1), Date(year, 4, 9), Date(year, 5, 1),
                      Date(year, 6, 12), Date(year, 8, 21), Date(year, 8, 25),
                      Date(year, 11, 1), Date(year, 11, 30), Date(year, 12, 25),
                      Date(year, 12, 30), Date(year, 12, 31)>>
                    \o _get_holy_week_dates(year)
    IN SortedList(ListToSet(holidays))

\* holidays.py 148-160
BuildMajorPhHolidays(year) ==
    LET holy_week == _get_holy_week_dates(year)
        holidays == <<Date(year, 1, 1), Date(year, 12, 25)>>
                    \o (IF Len(holy_week) >= 2
                        THEN <<holy_week[1], holy_week[2]>> ELSE <<>>)
    IN SortedList(ListToSet(holidays))

\* a Python dict: a function whose domain is the set of keys present
EmptyDict == [k \in {} |-> <<>>]

\* d[k] = v
DictPut(d, k, v) == [x \in (DOMAIN d) \cup {k} |-> IF x = k THEN v ELSE d[x]]

\* holidays.py 82-130: the cached list when the year is cached
get_ph_holidays(year) ==
    IF year \in DOMAIN holidayCache THEN holidayCache[year]
    ELSE BuildPhHolidays(year)

\* holidays.py 133-170
get_major_ph_holidays(year) ==
    IF year \in DOMAIN majorHolidayCache THEN majorHolidayCache[year]
    ELSE BuildMajorPhHolidays(year)

\* variant: major_only is ignored
is_holiday_AllAlways(date, major_only) ==
    date \in ListToSet(get_ph_holidays(YearOf(date)))

\* holidays.py 173-191
is_holiday(date, major_only) ==
    LET year == YearOf(date)
        holidays == IF major_only THEN get_major_ph_holidays(year)
                    ELSE get_ph_holidays(year)
    IN date \in ListToSet(holidays)

\* holidays.py 206-217
is_sunday(date) == Weekday(date) = 6

\* holidays.py 96-98, 123 and 144-146, 163: what a call of is_holiday leaves
\* in the two memo tables
HolidayCacheAfter(date, major_only) ==
    IF major_only THEN holidayCache
    ELSE DictPut(holidayCache, YearOf(date), get_ph_holidays(YearOf(date)))

MajorHolidayCacheAfter(date, major_only) ==
    IF major_only
    THEN DictPut(majorHolidayCache, YearOf(date),
                 get_major_ph_holidays(YearOf(date)))
    ELSE majorHolidayCache

(***************************************************************************)
(* DeliveryCalculator (calculator.py 14-301)                               *)
(***************************************************************************)
MAX_CALCULATION_ITERATIONS == 100

NoDate == 0

Couriers == {"LBC", "J&T", "JRS"}
WindowStarts == {Date(2025, 4, 7), Date(2025, 12, 19)}
StartDates == {w + k : w \in WindowStarts, k \in 0..WindowDays}
BaseDayChoices == (0 - 1)..MaxBaseDays
\* max_iterations: None, or a number
MaxIterChoices ==
    {[given |-> FALSE, n |-> 0]} \cup {[given |-> TRUE, n |-> k] : k \in 0..MaxIterBound}

\* variant: the J&T branch is missing, J&T falls to the default
should_skip_date_NoJT(courier_name, date) ==
    IF courier_name = "LBC"
    THEN is_sunday(date) \/ is_holiday(date, FALSE)
    ELSE is_sunday(date) \/ is_holiday(date, FALSE)

\* variant: LBC and the couriers without a policy skip Sundays only
should_skip_date_SundaysOnly(courier_name, date) ==
    IF courier_name = "LBC"
    THEN is_sunday(date)
    ELSE IF courier_name = "J&T"
    THEN is_holiday(date, TRUE)
    ELSE is_sunday(date)

\* calculator.py 144-197: the courier's policy
should_skip_date(courier_name, date) ==
    IF courier_name = "LBC"
    THEN is_sunday(date) \/ is_holiday(date, FALSE)
    ELSE IF courier_name = "J&T"
    THEN is_holiday(date, TRUE)
    ELSE is_sunday(date) \/ is_holiday(date, FALSE)

\* which memo table the policy consults (calculator.py 167, 177, 186)
MajorOnly(courier_name) == courier_name # "LBC" /\ courier_name = "J&T"

CalcIdle ==
    [pc |-> "idle", start_date |-> NoDate, base_days |-> 0, courier_name |-> "",
     max_iterations |-> 0, days_added |-> 0, current_date |-> NoDate,
     iterations |-> 0, skipped |-> FALSE, result |-> NoDate]

InitCalc ==
    /\ holidayCache = EmptyDict
    /\ majorHolidayCache = EmptyDict
    /\ calc = CalcIdle

\* calculator.py 218-233: the default bound, the base_days guard, the locals
CalcBegin(start_date, base_days, courier_name, max_iterations) ==
    /\ calc.pc = "idle"
    /\ LET bound == IF max_iterations.given THEN max_iterations.n
                    ELSE MAX_CALCULATION_ITERATIONS
           entered == [CalcIdle EXCEPT !.start_date = start_date,
                                       !.base_days = base_days,
                                       !.courier_name = courier_name,
                                       !.max_iterations = bound]
       IN IF base_days <= 0
          THEN calc' = [entered EXCEPT !.pc = "done", !.result = NoDate]
          ELSE calc' = [entered EXCEPT !.pc = "loop", !.days_added = 0,
                                       !.current_date = start_date,
                                       !.iterations = 0]
    /\ UNCHANGED <<holidayCache, majorHolidayCache>>
    /\ UNCHANGED <<cacheVars, callVars>>

\* calculator.py 236: the loop condition
LoopCondition(c) == c.days_added < c.base_days /\ c.iterations < c.max_iterations

\* variant: the skip test looks at the day before the advance
CalcLoop_TestsBeforeAdvance ==
    /\ calc.pc = "loop"
    /\ LoopCondition(calc)
    /\ LET date == calc.current_date + 1
           skip == should_skip_date(calc.courier_name, calc.current_date)
       IN /\ calc' = [calc EXCEPT !.current_date = date,
                                  !.iterations = calc.iterations + 1,
                                  !.skipped = skip,
                                  !.days_added = IF skip THEN calc.days_added
                                                 ELSE calc.days_added + 1]
          /\ holidayCache' = HolidayCacheAfter(calc.current_date,
                                               MajorOnly(calc.courier_name))
          /\ majorHolidayCache' = MajorHolidayCacheAfter(calc.current_date,
                                                         MajorOnly(calc.courier_name))
    /\ UNCHANGED <<cacheVars, callVars>>

\* variant: a skipped day does not use up an iteration
CalcLoop_SkippedDaysFree ==
    /\ calc.pc = "loop"
    /\ LoopCondition(calc)
    /\ LET date == calc.current_date + 1
           skip == should_skip_date(calc.courier_name, date)
       IN /\ calc' = [calc EXCEPT !.current_date = date,
                                  !.iterations = IF skip THEN calc.iterations
                                                 ELSE calc.iterations + 1,
                                  !.skipped = skip,
                                  !.days_added = IF skip THEN calc.days_added
                                                 ELSE calc.days_added + 1]
          /\ holidayCache' = HolidayCacheAfter(date, MajorOnly(calc.courier_name))
          /\ majorHolidayCache' = MajorHolidayCacheAfter(date, MajorOnly(calc.courier_name))
    /\ UNCHANGED <<cacheVars, callVars>>

\* calculator.py 237-243: one pass of the loop body
CalcLoop ==
    /\ calc.pc = "loop"
    /\ LoopCondition(calc)
    /\ LET date == calc.current_date + 1
           skip == should_skip_date(calc.courier_name, date)
       IN /\ calc' = [calc EXCEPT !.current_date = date,
                                  !.iterations = calc.iterations + 1,
                                  !.skipped = skip,
                                  !.days_added = IF skip THEN calc.days_added
                                                 ELSE calc.days_added + 1]
          /\ holidayCache' = HolidayCacheAfter(date, MajorOnly(calc.courier_name))
          /\ majorHolidayCache' = MajorHolidayCacheAfter(date, MajorOnly(calc.courier_name))
    /\ UNCHANGED <<cacheVars, callVars>>

\* calculator.py 246-258: after the loop
CalcResult(c) ==
    IF c.iterations >= c.max_iterations THEN NoDate ELSE c.current_date

CalcExit ==
    /\ calc.pc = "loop"
    /\ ~LoopCondition(calc)
    /\ calc' = [calc EXCEPT !.pc = "done", !.result = CalcResult(calc)]
    /\ UNCHANGED <<holidayCache, majorHolidayCache>>
    /\ UNCHANGED <<cacheVars, callVars>>

\* the caller has the result; the next calculation may start
CalcReturn ==
    /\ calc.pc = "done"
    /\ calc' = CalcIdle
    /\ UNCHANGED <<holidayCache, majorHolidayCache>>
    /\ UNCHANGED <<cacheVars, callVars>>

\* holidays.py 219-224
HolidayCalculator_clear_cache ==
    /\ holidayCache' = EmptyDict
    /\ majorHolidayCache' = EmptyDict
    /\ UNCHANGED calc
    /\ UNCHANGED <<cacheVars, callVars>>

(***************************************************************************)
(* Wall-clock datetimes (datetime with a tzinfo): the calendar date and    *)
(* the time of day in the zone.  replace() keeps the tzinfo, and two       *)
(* datetimes that share a tzinfo compare by their wall-clock fields.       *)
(***************************************************************************)
DateTime(date, hour, minute, second, microsecond) ==
    [date |-> date, hour |-> hour, minute |-> minute, second |-> second,
     microsecond |-> microsecond]

\* datetime.__lt__
DateTimeLess(a, b) ==
    \/ a.date < b.date
    \/ a.date = b.date /\ a.hour < b.hour
    \/ a.date = b.date /\ a.hour = b.hour /\ a.minute < b.minute
    \/ a.date = b.date /\ a.hour = b.hour /\ a.minute = b.minute
          /\ a.second < b.second
    \/ a.date = b.date /\ a.hour = b.hour /\ a.minute = b.minute
          /\ a.second = b.second /\ a.microsecond < b.microsecond

\* variant: the cutoff instant itself still counts as before the cutoff
check_cutoff_time_AtCutoff(current_time, cutoff_time) ==
    LET hm == ParseHourMinute(cutoff_time)
    IN IF ~hm.ok THEN FALSE
       ELSE IF ~(hm.hours \in 0..23 /\ hm.minutes \in 0..59) THEN FALSE
       ELSE LET cutoff_dt == [current_time EXCEPT !.hour = hm.hours,
                                                  !.minute = hm.minutes,
                                                  !.second = 0,
                                                  !.microsecond = 0]
            IN DateTimeLess(current_time, cutoff_dt) \/ current_time = cutoff_dt

\* calculator.py 47-85: a ValueError (the unpacking or int() at line 59,
\* replace() with an hour or minute out of range at 62-67) gives False
check_cutoff_time(current_time, cutoff_time) ==
    LET hm == ParseHourMinute(cutoff_time)
    IN IF ~hm.ok THEN FALSE
       ELSE IF ~(hm.hours \in 0..23 /\ hm.minutes \in 0..59) THEN FALSE
       ELSE LET cutoff_dt == [current_time EXCEPT !.hour = hm.hours,
                                                  !.minute = hm.minutes,
                                                  !.second = 0,
                                                  !.microsecond = 0]
            IN DateTimeLess(current_time, cutoff_dt)

\* calculator.py 283: total_calendar_days / base_days, kept as a fraction
DayRatio(base_days, total_calendar_days) ==
    IF base_days > 0 THEN [num |-> total_calendar_days, den |-> base_days]
    ELSE [num |-> 1, den |-> 1]

\* ratio <= k/2, for a positive denominator
RatioAtMostHalves(ratio, k) == 2 * ratio.num <= k * ratio.den

\* variant: a ratio of exactly 2.0 is already low
get_delivery_confidence_StrictMedium(base_days, total_calendar_days, courier_name) ==
    LET day_ratio == DayRatio(base_days, total_calendar_days)
    IN IF RatioAtMostHalves(day_ratio, 3) THEN "high"
       ELSE IF 2 * day_ratio.num < 4 * day_ratio.den THEN "medium"
       ELSE "low"

\* calculator.py 265-301
get_delivery_confidence(base_days, total_calendar_days, courier_name) ==
    LET day_ratio == DayRatio(base_days, total_calendar_days)
    IN IF RatioAtMostHalves(day_ratio, 3) THEN "high"
       ELSE IF RatioAtMostHalves(day_ratio, 4) THEN "medium"
       ELSE "low"

(***************************************************************************)
(* Direct calls of the pure functions: the arguments and the result of the *)
(* last call                                                               *)
(***************************************************************************)
Str_140030 == <<"1", "4", ":", "0", "0", ":", "3", "0">>
Str_neg130 == <<"-", "1", ":", "3", "0">>
Str_1460 == <<"1", "4", ":", "6", "0">>

CutoffTexts == {Str_1400, Str_0930, Str_2599, Str_noon, Str_140030, Str_neg130,
                Str_1460}
ClockHours == {9, 13, 14, 15}
ClockMinutes == {0, 29, 30, 59}
ClockSeconds == {0, 59}
ClockMicros == {0, 1}
Today == Date(2025, 12, 24)
ClockTimes ==
    {DateTime(Today, h, m, sec, us) :
        h \in ClockHours, m \in ClockMinutes, sec \in ClockSeconds, us \in ClockMicros}
ConfidenceBaseDays == 0..MaxBaseDays
ConfidenceCalendarDays == 0..(3 * MaxBaseDays)

(***************************************************************************)
(* InputValidator (validators.py 11-100)                                   *)
(***************************************************************************)
LowerLetters == <<"a", "b", "c", "d", "e", "f", "g", "h", "i", "j", "k", "l", "m",
                  "n", "o", "p", "q", "r", "s", "t", "u", "v", "w", "x", "y", "z">>
UpperLetters == <<"A", "B", "C", "D", "E", "F", "G", "H", "I", "J", "K", "L", "M",
                  "N", "O", "P", "Q", "R", "S", "T", "U", "V", "W", "X", "Y", "Z">>

IsLower(ch) == \E i \in 1..26 : LowerLetters[i] = ch
IsUpper(ch) == \E i \in 1..26 : UpperLetters[i] = ch

\* str.upper() and str.lower()
Upper(s) ==
    [i \in 1..Len(s) |->
        IF IsLower(s[i]) THEN UpperLetters[CHOOSE k \in 1..26 : LowerLetters[k] = s[i]]
        ELSE s[i]]
Lower(s) ==
    [i \in 1..Len(s) |->
        IF IsUpper(s[i]) THEN LowerLetters[CHOOSE k \in 1..26 : UpperLetters[k] = s[i]]
        ELSE s[i]]

\* str.replace(ch, '')
Without(s, ch) == SelectSeq(s, LAMBDA c : c # ch)

\* str.isalnum(): not empty, letters and digits only
IsAlnum(s) ==
    s # <<>> /\ \A i \in 1..Len(s) : IsLower(s[i]) \/ IsUpper(s[i]) \/ IsDigit(s[i])

\* the names the model's configurations and policies use, as the strings
\* that are their dictionary keys; any other text is a key of no dictionary
KnownNames ==
    {<<<<"L", "B", "C">>, "LBC">>, <<<<"J", "&", "T">>, "J&T">>,
     <<<<"J", "R", "S">>, "JRS">>, <<<<"G", "R", "A", "B">>, "GRAB">>,
     <<<<"n", "c", "r">>, "ncr">>, <<<<"l", "u", "z", "o", "n">>, "luzon">>,
     <<<<"v", "i", "s", "a", "y", "a", "s">>, "visayas">>,
     <<<<"m", "i", "n", "d", "a", "n", "a", "o">>, "mindanao">>}
KeyOf(s) ==
    IF \E e \in KnownNames : e[1] = s
    THEN (CHOOSE e \in KnownNames : e[1] = s)[2]
    ELSE "?"

ALLOWED_REGIONS == {"ncr", "luzon", "visayas", "mindanao"}
MAX_COURIER_LENGTH == 50
MAX_REGION_LENGTH == 50

\* validators.py 22-60: (is_valid, normalized)
validate_courier(courier_name) ==
    LET normalized == Upper(StripBlanks(courier_name))
    IN IF courier_name = <<>> THEN [valid |-> FALSE, value |-> ""]
       ELSE IF normalized = <<>> THEN [valid |-> FALSE, value |-> ""]
       ELSE IF Len(normalized) > MAX_COURIER_LENGTH THEN [valid |-> FALSE, value |-> ""]
       ELSE IF ~IsAlnum(Without(Without(Without(normalized, "&"), "-"), " "))
       THEN [valid |-> FALSE, value |-> ""]
       ELSE [valid |-> TRUE, value |-> KeyOf(normalized)]

\* validators.py 62-100
validate_region(region) ==
    LET normalized == Lower(StripBlanks(region))
    IN IF region = <<>> THEN [valid |-> FALSE, value |-> ""]
       ELSE IF normalized = <<>> THEN [valid |-> FALSE, value |-> ""]
       ELSE IF Len(normalized) > MAX_REGION_LENGTH THEN [valid |-> FALSE, value |-> ""]
       ELSE IF KeyOf(normalized) \notin ALLOWED_REGIONS
       THEN [valid |-> FALSE, value |-> ""]
       ELSE [valid |-> TRUE, value |-> KeyOf(normalized)]

(***************************************************************************)
(* get_courier_base_days (calculator.py 88-141)                            *)
(***************************************************************************)
\* key in dict, dict[key] for a JSON object
DictHas(d, key) == \E i \in 1..Len(d.items) : d.items[i].k = key
DictGet(d, key) == d.items[CHOOSE i \in 1..Len(d.items) : d.items[i].k = key].v

NoDays == 0

\* the day count, or NoDays for None
get_courier_base_days(config, courier_name, region) ==
    IF ~DictHas(config.couriers, courier_name) THEN NoDays
    ELSE LET courier_data == DictGet(config.couriers, courier_name)
         IN IF ~DictHas(courier_data, region) THEN NoDays
            ELSE LET base_days == DictGet(courier_data, region)
                 IN IF ~base_days.isInt THEN NoDays
                    ELSE IF base_days.n <= 0 THEN NoDays
                    ELSE base_days.n

(***************************************************************************)
(* strftime('%Y-%m-%d')                                                    *)
(***************************************************************************)
MonthOf(date) ==
    CHOOSE m \in 1..12 :
        /\ Date(YearOf(date), m, 1) <= date
        /\ date <= Date(YearOf(date), m, DaysInMonth(YearOf(date), m))
DayOf(date) == date - Date(YearOf(date), MonthOf(date), 1) + 1

\* n written with `width` digits, zero-padded
RECURSIVE ZeroPadded(_, _)
ZeroPadded(n, width) ==
    IF width = 0 THEN <<>>
    ELSE ZeroPadded(n \div 10, width - 1) \o <<Digits[(n % 10) + 1]>>

FormatDate(date) ==
    ZeroPadded(YearOf(date), 4) \o <<"-">> \o ZeroPadded(MonthOf(date), 2)
        \o <<"-">> \o ZeroPadded(DayOf(date), 2)

(***************************************************************************)
(* delivery_estimate (main.py 28-144)                                      *)
(* The request runs on thread EstThread.  Its get_config call is made of   *)
(* the ConfigCache steps above; its calculate_delivery_date call is made   *)
(* of the calculator steps above.                                          *)
(***************************************************************************)
EstThread == 1

NoClock == DateTime(NoDate, 0, 0, 0, 0)

\* what the tool returns: DeliveryEstimate.to_dict() (ok), or an error dict
NoResponse ==
    [ok |-> FALSE, error_code |-> "", courier |-> "", region |-> "",
     cutoff_time |-> <<>>, before_cutoff |-> FALSE, start_date |-> <<>>,
     base_delivery_days |-> 0, estimated_delivery_date |-> <<>>,
     total_calendar_days |-> 0, confidence_level |-> ""]
ErrorResponse(code) == [NoResponse EXCEPT !.error_code = code]

\* the locals of the request; fetched is observation only: whether its
\* get_config call went to the remote source
EstIdle ==
    [pc |-> "idle", request_id |-> NoTime, courier |-> "", region |-> "",
     config |-> NoConfig, fetched |-> FALSE, current_time |-> NoClock,
     is_before_cutoff |-> FALSE, base_days |-> NoDays, start_date |-> NoDate,
     estimated_delivery |-> NoDate, response |-> NoResponse]

EstFail(code) == [est EXCEPT !.pc = "done", !.response = ErrorResponse(code)]

\* main.py 35-54: the request id is read from the clock, the inputs are validated
EstBegin(courier_name, region) ==
    /\ est.pc = "idle"
    /\ LET courier == validate_courier(courier_name)
           reg == validate_region(region)
           entered == [est EXCEPT !.request_id = now]
       IN IF ~courier.valid
          THEN est' = [entered EXCEPT !.pc = "done",
                                      !.response = ErrorResponse("INVALID_COURIER")]
          ELSE IF ~reg.valid
          THEN est' = [entered EXCEPT !.pc = "done", !.courier = courier.value,
                                      !.response = ErrorResponse("INVALID_REGION")]
          ELSE est' = [entered EXCEPT !.pc = "get_config", !.courier = courier.value,
                                      !.region = reg.value]
    /\ UNCHANGED <<hol, fn>>
    /\ UNCHANGED <<cacheVars, calcVars>>

\* main.py 58: ConfigCache.get_config() is entered
EstGetConfig ==
    /\ est.pc = "get_config"
    /\ GetConfigLocked(EstThread, FALSE)

\* variant: a request whose refresh failed is refused although get_config
\* gave it the previous snapshot
EstConfigLoaded_RefusesStale ==
    /\ est.pc = "get_config"
    /\ pc[EstThread] = "done"
    /\ LET config == res[EstThread]
       IN IF config = Raised \/ config = NoConfig
             \/ (didFetch[EstThread] /\ doneAt < est.request_id)
          THEN est' = EstFail("CONFIG_ERROR")
          ELSE est' = [est EXCEPT !.pc = "resolve", !.config = config,
                                  !.fetched = didFetch[EstThread]]
    /\ pc' = [pc EXCEPT ![EstThread] = "idle"]
    /\ res' = [res EXCEPT ![EstThread] = NoConfig]
    /\ didFetch' = [didFetch EXCEPT ![EstThread] = FALSE]
    /\ overlap' = [a \in Threads |-> IF a = EstThread THEN {}
                                     ELSE overlap[a] \ {EstThread}]
    /\ UNCHANGED <<cache, cacheTime, cacheTtl, fetchInProgress, now, callTime, doneAt>>
    /\ UNCHANGED <<hol, fn>>
    /\ UNCHANGED calcVars

\* main.py 57-66: get_config has returned or raised
EstConfigLoaded ==
    /\ est.pc = "get_config"
    /\ pc[EstThread] = "done"
    /\ LET config == res[EstThread]
       IN IF config = Raised \/ config = NoConfig
          THEN est' = EstFail("CONFIG_ERROR")
          ELSE est' = [est EXCEPT !.pc = "resolve", !.config = config,
                                  !.fetched = didFetch[EstThread]]
    /\ pc' = [pc EXCEPT ![EstThread] = "idle"]
    /\ res' = [res EXCEPT ![EstThread] = NoConfig]
    /\ didFetch' = [didFetch EXCEPT ![EstThread] = FALSE]
    /\ overlap' = [a \in Threads |-> IF a = EstThread THEN {}
                                     ELSE overlap[a] \ {EstThread}]
    /\ UNCHANGED <<cache, cacheTime, cacheTtl, fetchInProgress, now, callTime, doneAt>>
    /\ UNCHANGED <<hol, fn>>
    /\ UNCHANGED calcVars

\* variant: the order is processed the same day whatever the cutoff says
EstResolve_AlwaysSameDay(current_time) ==
    /\ est.pc = "resolve"
    /\ LET is_before_cutoff == check_cutoff_time(current_time, est.config.cutoff_time)
           base_days == get_courier_base_days(est.config, est.courier, est.region)
           start_date == current_time.date
           read == [est EXCEPT !.current_time = current_time,
                               !.is_before_cutoff = is_before_cutoff,
                               !.base_days = base_days]
       IN IF base_days = NoDays
          THEN est' = [read EXCEPT !.pc = "done",
                                   !.response = ErrorResponse("INVALID_COURIER")]
          ELSE est' = [read EXCEPT !.pc = "calculate", !.start_date = start_date]
    /\ UNCHANGED <<hol, fn>>
    /\ UNCHANGED <<cacheVars, calcVars>>

\* main.py 69-104: the current time in the configured zone, the cutoff test,
\* the base days and the start date
EstResolve(current_time) ==
    /\ est.pc = "resolve"
    /\ LET is_before_cutoff == check_cutoff_time(current_time, est.config.cutoff_time)
           base_days == get_courier_base_days(est.config, est.courier, est.region)
           start_date == IF is_before_cutoff THEN current_time.date
                         ELSE current_time.date + 1
           read == [est EXCEPT !.current_time = current_time,
                               !.is_before_cutoff = is_before_cutoff,
                               !.base_days = base_days]
       IN IF base_days = NoDays
          THEN est' = [read EXCEPT !.pc = "done",
                                   !.response = ErrorResponse("INVALID_COURIER")]
          ELSE est' = [read EXCEPT !.pc = "calculate", !.start_date = start_date]
    /\ UNCHANGED <<hol, fn>>
    /\ UNCHANGED <<cacheVars, calcVars>>

\* main.py 107-111: calculate_delivery_date is entered with the default bound
EstCalculate ==
    /\ est.pc = "calculate"
    /\ CalcBegin(est.start_date, est.base_days, est.courier, [given |-> FALSE, n |-> 0])

\* main.py 113-137: the calculation has returned; the response is built
EstBuild ==
    /\ est.pc = "calculate"
    /\ calc.pc = "done"
    /\ LET estimated_delivery == calc.result
       IN IF estimated_delivery = NoDate
          THEN est' = EstFail("INTERNAL_ERROR")
          ELSE est' =
                 [est EXCEPT
                     !.pc = "done",
                     !.estimated_delivery = estimated_delivery,
                     !.response =
                         [ok |-> TRUE, error_code |-> "",
                          courier |-> est.courier, region |-> est.region,
                          cutoff_time |-> est.config.cutoff_time,
                          before_cutoff |-> est.is_before_cutoff,
                          start_date |-> FormatDate(est.start_date),
                          base_delivery_days |-> est.base_days,
                          estimated_delivery_date |-> FormatDate(estimated_delivery),
                          total_calendar_days |-> estimated_delivery - est.start_date,
                          confidence_level |-> "high"]]
    /\ calc' = CalcIdle
    /\ UNCHANGED <<holidayCache, majorHolidayCache>>
    /\ UNCHANGED <<hol, fn>>
    /\ UNCHANGED cacheVars

\* the caller has the response; the next request may start
EstReturn ==
    /\ est.pc = "done"
    /\ est' = EstIdle
    /\ UNCHANGED <<hol, fn>>
    /\ UNCHANGED <<cacheVars, calcVars>>

\* ---- the requests of SpecEstimate
CouriersLong ==
    JDict(<<Member("JRS", JDict(<<Member("ncr", JInt(4)),
                                  Member("luzon", JInt(MAX_CALCULATION_ITERATIONS))>>))>>)
SheetLong == <<TzRow("UTC"), CutoffRow(Str_0930), CouriersRow(CouriersLong)>>
EstSheets == {SheetA, SheetLong, SheetEmpty}
EstFetchOutcomes == [ok : {TRUE}, rows : EstSheets] \cup {[ok |-> FALSE, rows |-> <<>>]}

EstCourierInputs ==
    {<<"l", "b", "c">>, <<" ", "J", "&", "T", " ">>, <<"j", "r", "s">>,
     <<"L", "B", "C", "!">>, <<>>}
EstRegionInputs ==
    {<<"N", "C", "R">>, <<"l", "u", "z", "o", "n", " ">>, <<"m", "o", "o", "n">>, <<" ">>}
EstDates == {Date(2025, 4, 16), Date(2025, 12, 24)}
EstClockTimes ==
    {DateTime(d, hm[1], hm[2], 0, 0) : d \in EstDates, hm \in {<<9, 0>>, <<9, 30>>, <<14, 0>>}}

(***************************************************************************)
(* Concurrent holiday calls (holidays.py 82-191)                           *)
(* get_ph_holidays and get_major_ph_holidays take no lock: the membership  *)
(* test (96, 144), the read of the memoized list (98, 146) and the write   *)
(* of a built list (123, 163) are steps of their own.  The list is built   *)
(* from locals.  is_holiday (173-191) calls one of the two and tests the   *)
(* date against what it returns.                                           *)
(***************************************************************************)
\* what a call gave: a list, a membership answer, or an exception
NoOut == [raised |-> FALSE, list |-> <<>>, member |-> FALSE]

HolIdle ==
    [pc |-> "idle", op |-> "", year |-> 0, date |-> NoDate, major_only |-> FALSE,
     out |-> NoOut]

HolYears == {YearOf(Today)}
HolDates == {Today + 1, Today + 2}

\* the memo table the call works on
MemoOf(h) == IF h.major_only THEN majorHolidayCache ELSE holidayCache

\* the call's result once it has the list
HolOut(h, holidays) ==
    IF h.op = "is_holiday"
    THEN [NoOut EXCEPT !.member = h.date \in ListToSet(holidays)]
    ELSE [NoOut EXCEPT !.list = holidays]

\* get_ph_holidays(year) or get_major_ph_holidays(year) is called
HolCallList(t, year, major_only) ==
    /\ hol[t].pc = "idle"
    /\ hol' = [hol EXCEPT ![t] = [HolIdle EXCEPT !.pc = "check", !.op = "list",
                                                 !.year = year,
                                                 !.major_only = major_only]]
    /\ UNCHANGED <<est, fn>>
    /\ UNCHANGED <<cacheVars, calcVars>>

\* holidays.py 184-189: is_holiday(date, major_only) calls the list function
HolCallIsHoliday(t, date, major_only) ==
    /\ hol[t].pc = "idle"
    /\ hol' = [hol EXCEPT ![t] = [HolIdle EXCEPT !.pc = "check", !.op = "is_holiday",
                                                 !.year = YearOf(date), !.date = date,
                                                 !.major_only = major_only]]
    /\ UNCHANGED <<est, fn>>
    /\ UNCHANGED <<cacheVars, calcVars>>

\* holidays.py 96, 144: if year in cls._holiday_cache
HolCheck(t) ==
    /\ hol[t].pc = "check"
    /\ hol' = [hol EXCEPT ![t].pc = IF hol[t].year \in DOMAIN MemoOf(hol[t])
                                    THEN "read" ELSE "build"]
    /\ UNCHANGED <<est, fn>>
    /\ UNCHANGED <<cacheVars, calcVars>>

\* holidays.py 98, 146: return cls._holiday_cache[year], outside the try
\* block: a KeyError when the key is no longer there
HolReadCached(t) ==
    /\ hol[t].pc = "read"
    /\ LET h == hol[t]
       IN IF h.year \in DOMAIN MemoOf(h)
          THEN hol' = [hol EXCEPT ![t].pc = "done",
                                  ![t].out = HolOut(h, MemoOf(h)[h.year])]
          ELSE hol' = [hol EXCEPT ![t].pc = "done",
                                  ![t].out = [NoOut EXCEPT !.raised = TRUE]]
    /\ UNCHANGED <<est, fn>>
    /\ UNCHANGED <<cacheVars, calcVars>>

\* holidays.py 100-126, 148-166: the list is built, memoized and returned
HolBuild(t) ==
    /\ hol[t].pc = "build"
    /\ LET h == hol[t]
           holidays == IF h.major_only THEN BuildMajorPhHolidays(h.year)
                       ELSE BuildPhHolidays(h.year)
       IN /\ hol' = [hol EXCEPT ![t].pc = "done", ![t].out = HolOut(h, holidays)]
          /\ holidayCache' = IF h.major_only THEN holidayCache
                             ELSE DictPut(holidayCache, h.year, holidays)
          /\ majorHolidayCache' = IF h.major_only
                                  THEN DictPut(majorHolidayCache, h.year, holidays)
                                  ELSE majorHolidayCache
    /\ UNCHANGED calc
    /\ UNCHANGED <<est, fn>>
    /\ UNCHANGED cacheVars

\* the caller has the result
HolReturn(t) ==
    /\ hol[t].pc = "done"
    /\ hol' = [hol EXCEPT ![t] = HolIdle]
    /\ UNCHANGED <<est, fn>>
    /\ UNCHANGED <<cacheVars, calcVars>>

NoCall == [op |-> "none", args |-> <<>>, out |-> <<>>]

Call_check_cutoff_time(current_time, cutoff_time) ==
    /\ fn' = [op |-> "check_cutoff_time",
              args |-> [current_time |-> current_time, cutoff_time |-> cutoff_time],
              out |-> check_cutoff_time(current_time, cutoff_time)]
    /\ UNCHANGED <<cacheVars, calcVars, est, hol>>

EasterYears == 1900..2100

Call__calculate_easter(year) ==
    /\ fn' = [op |-> "_calculate_easter", args |-> [year |-> year],
              out |-> _calculate_easter(year)]
    /\ UNCHANGED <<cacheVars, calcVars, est, hol>>

Call__get_holy_week_dates(year) ==
    /\ fn' = [op |-> "_get_holy_week_dates", args |-> [year |-> year],
              out |-> _get_holy_week_dates(year)]
    /\ UNCHANGED <<cacheVars, calcVars, est, hol>>

\* a direct call is made when no other year is memoized: the tables are
\* cleared between years, which keeps the reachable tables finite in number
OnlyYearMemoized(year) ==
    (DOMAIN holidayCache) \cup (DOMAIN majorHolidayCache) \subseteq {year}

\* holidays.py 82-130, with the memo table written at line 123
Call_get_ph_holidays(year) ==
    /\ OnlyYearMemoized(year)
    /\ fn' = [op |-> "get_ph_holidays", args |-> [year |-> year],
              out |-> get_ph_holidays(year)]
    /\ holidayCache' = DictPut(holidayCache, year, get_ph_holidays(year))
    /\ UNCHANGED <<majorHolidayCache, calc>>
    /\ UNCHANGED <<cacheVars, est, hol>>

\* holidays.py 133-170, with the memo table written at line 163
Call_get_major_ph_holidays(year) ==
    /\ OnlyYearMemoized(year)
    /\ fn' = [op |-> "get_major_ph_holidays", args |-> [year |-> year],
              out |-> get_major_ph_holidays(year)]
    /\ majorHolidayCache' = DictPut(majorHolidayCache, year,
                                    get_major_ph_holidays(year))
    /\ UNCHANGED <<holidayCache, calc>>
    /\ UNCHANGED <<cacheVars, est, hol>>

Call_get_delivery_confidence(base_days, total_calendar_days, courier_name) ==
    /\ fn' = [op |-> "get_delivery_confidence",
              args |-> [base_days |-> base_days,
                        total_calendar_days |-> total_calendar_days,
                        courier_name |-> courier_name],
              out |-> get_delivery_confidence(base_days, total_calendar_days,
                                              courier_name)]
    /\ UNCHANGED <<cacheVars, calcVars, est, hol>>

(***************************************************************************)
(* refresh_config (main.py 183-207) and get_cache_info (config.py 191-218) *)
(* A refresh request runs on thread EstThread; its get_config call is made *)
(* of the ConfigCache steps above, with force_refresh = True.              *)
(***************************************************************************)
\* the request is under way: no response yet.  got is observation only:
\* what get_config gave the request
RefreshPending ==
    [op |-> "refresh_config", args |-> <<>>,
     out |-> [status |-> "", couriers |-> <<>>], got |-> NoConfig]

\* list(config["couriers"].keys())
CourierKeys(config) ==
    [i \in 1..Len(config.couriers.items) |-> config.couriers.items[i].k]

\* main.py 192-193: the request is entered
RefreshBegin ==
    /\ fn = NoCall
    /\ pc[EstThread] = "idle"
    /\ fn' = RefreshPending
    /\ UNCHANGED <<est, hol>>
    /\ UNCHANGED <<cacheVars, calcVars>>

\* main.py 194: ConfigCache.get_config(force_refresh=True) is entered
RefreshGetConfig ==
    /\ fn = RefreshPending
    /\ GetConfigLocked(EstThread, TRUE)

\* main.py 194-207: get_config has returned or raised; the response is built
RefreshBuild ==
    /\ fn = RefreshPending
    /\ pc[EstThread] = "done"
    /\ LET config == res[EstThread]
       IN fn' = [RefreshPending EXCEPT
                    !.got = config,
                    !.out = IF config = Raised
                            THEN [status |-> "error", couriers |-> <<>>]
                            ELSE [status |-> "success",
                                  couriers |-> IF config # NoConfig
                                               THEN CourierKeys(config) ELSE <<>>]]
    /\ pc' = [pc EXCEPT ![EstThread] = "idle"]
    /\ res' = [res EXCEPT ![EstThread] = NoConfig]
    /\ didFetch' = [didFetch EXCEPT ![EstThread] = FALSE]
    /\ overlap' = [a \in Threads |-> IF a = EstThread THEN {}
                                     ELSE overlap[a] \ {EstThread}]
    /\ UNCHANGED <<cache, cacheTime, cacheTtl, fetchInProgress, now, callTime, doneAt>>
    /\ UNCHANGED <<est, hol>>
    /\ UNCHANGED calcVars

\* config.py 199-218: the dict get_cache_info returns.  time.time() is the
\* clock plus a positive epoch, so a recorded _cache_time is never falsy; an
\* age of zero is.
get_cache_info ==
    IF cache = NoConfig
    THEN [cached |-> FALSE, cache_age |-> NoTime, ttl |-> cacheTtl,
          is_stale |-> FALSE, couriers_count |-> 0]
    ELSE LET cache_age == IF cacheTime # NoTime THEN now - cacheTime ELSE NoTime
         IN [cached |-> TRUE, cache_age |-> cache_age, ttl |-> cacheTtl,
             is_stale |-> IF cache_age # NoTime /\ cache_age # 0
                          THEN cache_age > cacheTtl ELSE FALSE,
             couriers_count |-> Len(cache.couriers.items)]

Call_get_cache_info ==
    /\ fn = NoCall
    /\ fn' = [op |-> "get_cache_info", args |-> <<>>, out |-> get_cache_info]
    /\ UNCHANGED <<est, hol>>
    /\ UNCHANGED <<cacheVars, calcVars>>

\* the caller has the response of the tool
ToolReturn ==
    /\ fn # NoCall
    /\ fn # RefreshPending
    /\ fn' = NoCall
    /\ UNCHANGED <<est, hol>>
    /\ UNCHANGED <<cacheVars, calcVars>>

(***************************************************************************)
(* Two calculations on the same arguments: calculate_delivery_date for     *)
(* J&T, its result kept, then for another courier                          *)
(***************************************************************************)
\* the first calculation has returned; the caller keeps what it gave
PairKeep ==
    /\ fn = NoCall
    /\ calc.pc = "done"
    /\ fn' = [op |-> "calculate_delivery_date",
              args |-> [start_date |-> calc.start_date, base_days |-> calc.base_days,
                        courier_name |-> calc.courier_name,
                        max_iterations |-> calc.max_iterations],
              out |-> calc.result]
    /\ calc' = CalcIdle
    /\ UNCHANGED <<holidayCache, majorHolidayCache>>
    /\ UNCHANGED <<est, hol>>
    /\ UNCHANGED cacheVars

\* the second calculation is entered with the arguments of the first
PairBeginSecond(courier_name) ==
    /\ fn.op = "calculate_delivery_date"
    /\ CalcBegin(fn.args.start_date, fn.args.base_days, courier_name,
                 [given |-> TRUE, n |-> fn.args.max_iterations])

\* the second calculation has returned; the caller has both results
PairReturn ==
    /\ fn.op = "calculate_delivery_date"
    /\ calc.pc = "done"
    /\ fn' = NoCall
    /\ calc' = CalcIdle
    /\ UNCHANGED <<holidayCache, majorHolidayCache>>
    /\ UNCHANGED <<est, hol>>
    /\ UNCHANGED cacheVars

(***************************************************************************)
(* Specifications                                                          *)
(***************************************************************************)
InitCalls ==
    /\ est = EstIdle
    /\ hol = [t \in Threads |-> HolIdle]
    /\ fn = NoCall

Init == InitCache /\ InitCalc /\ InitCalls

Next ==
    \/ \E t \in Threads, force_refresh \in BOOLEAN : GetConfigLocked(t, force_refresh)
    \/ \E t \in Threads, outcome \in FetchOutcomes : GetConfigFetched(t, outcome)
    \/ \E t \in Threads : GetConfigFailCheck(t)
    \/ \E t \in Threads : GetConfigHandlerClear(t)
    \/ \E t \in Threads : GetConfigHandlerCheck(t)
    \/ \E t \in Threads : GetConfigReturn(t)
    \/ ConfigCache_clear_cache
    \/ \E ttl_seconds \in TtlChoices : set_cache_ttl(ttl_seconds)
    \/ Tick

Spec == Init /\ [][Next]_vars

NextCalc ==
    \/ \E start_date \in StartDates, base_days \in BaseDayChoices,
          courier_name \in Couriers, max_iterations \in MaxIterChoices :
          CalcBegin(start_date, base_days, courier_name, max_iterations)
    \/ CalcLoop
    \/ CalcExit
    \/ CalcReturn
    \/ HolidayCalculator_clear_cache

SpecCalc == Init /\ [][NextCalc]_vars

\* CalcLoop can be taken exactly when the loop condition holds
CalcLoopEnabled == calc.pc = "loop" /\ LoopCondition(calc)

\* a calculation that has started is a running Python call: it keeps taking
\* its next step.  Weak fairness of CalcLoop is written out with its enabling
\* condition: WF_vars(CalcLoop) = []<>~ENABLED <<CalcLoop>>_vars \/ []<><<CalcLoop>>_vars
SpecCalcFair ==
    /\ SpecCalc
    /\ WF_vars(CalcExit)
    /\ ([]<>(~CalcLoopEnabled) \/ []<><<CalcLoop>>_vars)

NextFn ==
    \/ \E current_time \in ClockTimes, cutoff_time \in CutoffTexts :
          Call_check_cutoff_time(current_time, cutoff_time)
    \/ \E base_days \in ConfidenceBaseDays,
          total_calendar_days \in ConfidenceCalendarDays, courier_name \in Couriers :
          Call_get_delivery_confidence(base_days, total_calendar_days, courier_name)
    \/ \E year \in EasterYears : Call__calculate_easter(year)
    \/ \E year \in EasterYears : Call__get_holy_week_dates(year)

SpecFn == Init /\ [][NextFn]_vars

NextHolidays ==
    \/ \E year \in EasterYears : Call_get_ph_holidays(year)
    \/ \E year \in EasterYears : Call_get_major_ph_holidays(year)
    \/ HolidayCalculator_clear_cache

SpecHolidays == Init /\ [][NextHolidays]_vars

\* one refresh_config request at a time on EstThread, get_cache_info calls,
\* and the other threads inside get_config
NextTools ==
    \/ RefreshBegin
    \/ RefreshGetConfig
    \/ \E outcome \in EstFetchOutcomes :
          fn = RefreshPending /\ GetConfigFetched(EstThread, outcome)
    \/ fn = RefreshPending /\ GetConfigFailCheck(EstThread)
    \/ fn = RefreshPending /\ GetConfigHandlerClear(EstThread)
    \/ fn = RefreshPending /\ GetConfigHandlerCheck(EstThread)
    \/ RefreshBuild
    \/ Call_get_cache_info
    \/ ToolReturn
    \/ \E t \in Threads \ {EstThread} : GetConfigLocked(t, FALSE)
    \/ \E t \in Threads \ {EstThread}, outcome \in EstFetchOutcomes :
          GetConfigFetched(t, outcome)
    \/ \E t \in Threads \ {EstThread} : GetConfigFailCheck(t)
    \/ \E t \in Threads \ {EstThread} : GetConfigHandlerClear(t)
    \/ \E t \in Threads \ {EstThread} : GetConfigHandlerCheck(t)
    \/ \E t \in Threads \ {EstThread} : GetConfigReturn(t)
    \/ \E ttl_seconds \in TtlChoices : set_cache_ttl(ttl_seconds)
    \/ Tick

SpecTools == Init /\ [][NextTools]_vars

NextCalcPair ==
    \/ \E start_date \in StartDates, base_days \in BaseDayChoices,
          max_iterations \in MaxIterChoices :
          fn = NoCall /\ CalcBegin(start_date, base_days, "J&T", max_iterations)
    \/ CalcLoop
    \/ CalcExit
    \/ PairKeep
    \/ \E courier_name \in Couriers \ {"J&T"} : PairBeginSecond(courier_name)
    \/ PairReturn

SpecCalcPair == Init /\ [][NextCalcPair]_vars

NextHolidayThreads ==
    \/ \E t \in Threads, year \in HolYears, major_only \in BOOLEAN :
          HolCallList(t, year, major_only)
    \/ \E t \in Threads, date \in HolDates, major_only \in BOOLEAN :
          HolCallIsHoliday(t, date, major_only)
    \/ \E t \in Threads : HolCheck(t)
    \/ \E t \in Threads : HolReadCached(t)
    \/ \E t \in Threads : HolBuild(t)
    \/ \E t \in Threads : HolReturn(t)
    \/ HolidayCalculator_clear_cache

SpecHolidayThreads == Init /\ [][NextHolidayThreads]_vars

\* one request at a time on EstThread; the other threads are other requests
\* inside get_config.  They are followed while this request is inside its own
\* call and up to the end of theirs: what they do after this request has
\* taken its snapshot cannot change it, and is the same as done just before.
OthersIdle == \A t \in Threads \ {EstThread} : pc[t] = "idle"

NextEstimate ==
    \/ \E courier_name \in EstCourierInputs, region \in EstRegionInputs :
          EstBegin(courier_name, region)
    \/ EstGetConfig
    \/ \E outcome \in EstFetchOutcomes :
          est.pc = "get_config" /\ GetConfigFetched(EstThread, outcome)
    \/ est.pc = "get_config" /\ GetConfigFailCheck(EstThread)
    \/ est.pc = "get_config" /\ GetConfigHandlerClear(EstThread)
    \/ est.pc = "get_config" /\ GetConfigHandlerCheck(EstThread)
    \/ OthersIdle /\ EstConfigLoaded
    \/ \E current_time \in EstClockTimes : EstResolve(current_time)
    \/ EstCalculate
    \/ est.pc = "calculate" /\ CalcLoop
    \/ est.pc = "calculate" /\ CalcExit
    \/ EstBuild
    \/ EstReturn
    \/ \E t \in Threads \ {EstThread} :
          est.pc = "get_config" /\ GetConfigLocked(t, FALSE)
    \/ \E t \in Threads \ {EstThread}, outcome \in EstFetchOutcomes :
          est.pc = "get_config" /\ GetConfigFetched(t, outcome)
    \/ \E t \in Threads \ {EstThread} :
          est.pc = "get_config" /\ GetConfigFailCheck(t)
    \/ \E t \in Threads \ {EstThread} :
          est.pc = "get_config" /\ GetConfigHandlerClear(t)
    \/ \E t \in Threads \ {EstThread} :
          est.pc = "get_config" /\ GetConfigHandlerCheck(t)
    \/ \E t \in Threads \ {EstThread} :
          est.pc = "get_config" /\ GetConfigReturn(t)
    \/ est.pc = "idle" /\ Tick

SpecEstimate == Init /\ [][NextEstimate]_vars

(***************************************************************************)
(* Properties of the configuration cache (checked under Spec)              *)
(***************************************************************************)
IsSnapshot(value) == value # NoConfig /\ value # Raised

\* what a caller makes of a result: a snapshot, or no configuration
Outcome(value) == IF IsSnapshot(value) THEN value ELSE NoConfig

Fetching == {t \in Threads : pc[t] = "fetching"}

\* C1: at most one caller is inside the remote fetch/parse/validate sequence
\* at any time.  Violated: a call that fails with no snapshot clears the flag
\* twice (lines 65/78, then 97), and the second clearing can erase another
\* caller's claim.
C1_SingleFetch == Cardinality(Fetching) <= 1

C3_TtlFromCompletion ==
    (cache # NoConfig /\ doneAt # NoTime)
        => /\ (now - doneAt < cacheTtl) => CacheIsValid(FALSE, now)
           /\ (now - doneAt >= cacheTtl) => ~CacheIsValid(FALSE, now)

FailureDecision(t) == pc[t] \in {"fail_check", "handler_check"}

\* C4: a refresh that fails never touches the stored snapshot or its
\* timestamp; where it decides its result (lines 67-70, 80-83, 99-102) it
\* returns the existing snapshot when there is one, and otherwise the
\* exception goes to the caller (from lines 70 and 83 through the handler).
C4_FailureFallback ==
    [][\A t \in Threads :
          /\ (pc[t] \in {"fetching", "fail_check", "handler_clear", "handler_check"}
                  /\ pc'[t] # pc[t] /\ ~IsSnapshot(res'[t]))
                 => (cache' = cache /\ cacheTime' = cacheTime)
          /\ (FailureDecision(t) /\ pc'[t] # pc[t])
                 => /\ cache' = cache /\ cacheTime' = cacheTime
                    /\ cache # NoConfig => (pc'[t] = "done" /\ res'[t] = cache)
                    /\ (cache = NoConfig /\ pc[t] = "fail_check")
                           => pc'[t] = "handler_clear"
                    /\ (cache = NoConfig /\ pc[t] = "handler_check")
                           => (pc'[t] = "done" /\ res'[t] = Raised)
      ]_vars

C4_Witness ==
    \E t \in Threads, u \in Threads :
        /\ pc[t] = "done" /\ didFetch[t] /\ res[t] = Raised
        /\ pc[u] = "fail_check" /\ cache # NoConfig

CutoffWellFormed(text) ==
    \E k \in 1..Len(text) :
        /\ text[k] = ":"
        /\ \A j \in 1..Len(text) : text[j] = ":" => j = k
        /\ LET hh == ParseInt(SubSeq(text, 1, k - 1))
               mm == ParseInt(SubSeq(text, k + 1, Len(text)))
           IN hh.ok /\ mm.ok /\ hh.val \in 0..23 /\ mm.val \in 0..59

WellFormedConfig(config) ==
    /\ {"timezone", "cutoff_time", "couriers"} \subseteq DOMAIN config
    /\ config.couriers.isDict
    /\ config.couriers.items # <<>>
    /\ CutoffWellFormed(config.cutoff_time)
    /\ config.timezone \in KnownTimezones
    /\ \A i \in 1..Len(config.couriers.items) :
           LET regions == config.couriers.items[i].v
           IN /\ regions.isDict
              /\ \A j \in 1..Len(regions.items) :
                     regions.items[j].v.isInt /\ regions.items[j].v.n >= 1

\* C6: the stored snapshot is absent or a complete, valid configuration, it
\* is absent exactly when its timestamp is, and every snapshot a call returns
\* is a complete, valid configuration.
C6_SnapshotWellFormed ==
    /\ cache # NoConfig => WellFormedConfig(cache)
    /\ (cache = NoConfig) <=> (cacheTime = NoTime)
    /\ \A t \in Threads :
           (pc[t] = "done" /\ IsSnapshot(res[t])) => WellFormedConfig(res[t])

C6_Witness ==
    \E t \in Threads :
        pc[t] = "done" /\ didFetch[t] /\ res[t] = cache /\ cache # NoConfig

(***************************************************************************)
(* Properties of the delivery calculator (checked under SpecCalc)          *)
(***************************************************************************)
Succeeded == calc.pc = "done" /\ calc.result # NoDate

\* the days after the start, up to and including `last`, that count
CountedDays(courier_name, start_date, last) ==
    {d \in (start_date + 1)..last : ~should_skip_date(courier_name, d)}

\* C7: a returned date is after the start, is itself a day that counts, and
\* is the base_days-th counted day after the start.
C7_NthCountedDay ==
    Succeeded
        => /\ calc.result > calc.start_date
           /\ ~should_skip_date(calc.courier_name, calc.result)
           /\ Cardinality(CountedDays(calc.courier_name, calc.start_date, calc.result))
                  = calc.base_days

C7_Witness ==
    /\ Succeeded
    /\ calc.base_days >= 2
    /\ calc.result - calc.start_date > calc.base_days

\* C8: the calculation fails exactly when base_days <= 0 or the bound is used
\* up with the counter still below base_days.  Violated: line 246 also fails
\* a run whose counter reaches base_days on the last allowed advance.
C8_FailsOnlyWhenExhausted ==
    calc.pc = "done"
        => ((calc.result = NoDate)
               <=> \/ calc.base_days <= 0
                   \/ (calc.iterations = calc.max_iterations
                         /\ calc.days_added < calc.base_days))

FinishedRun(courier_name) ==
    /\ calc.pc = "done"
    /\ calc.start_date = Date(2025, 12, 24)
    /\ calc.base_days = 3
    /\ calc.max_iterations = MAX_CALCULATION_ITERATIONS
    /\ calc.courier_name = courier_name

\* C9: from 2025-12-24 with three business days, LBC delivers on 2025-12-29
\* (Christmas and Sunday the 28th skipped, Saturday the 27th counted) and
\* J&T on 2025-12-28 (only Christmas skipped).
C9_ChristmasScenario ==
    /\ FinishedRun("LBC")
           => /\ calc.result = Date(2025, 12, 29)
              /\ calc.result - calc.start_date = 5
              /\ should_skip_date("LBC", Date(2025, 12, 25))
              /\ ~should_skip_date("LBC", Date(2025, 12, 27))
              /\ should_skip_date("LBC", Date(2025, 12, 28))
    /\ FinishedRun("J&T")
           => /\ calc.result = Date(2025, 12, 28)
              /\ calc.result - calc.start_date = 4
              /\ {d \in Date(2025, 12, 25)..Date(2025, 12, 28) :
                      should_skip_date("J&T", d)} = {Date(2025, 12, 25)}

C9_Witness == FinishedRun("J&T") /\ calc.iterations = 4

\* the policy in the data model's words
SkipRule(courier_name, date) ==
    IF courier_name = "J&T"
    THEN date \in ListToSet(BuildMajorPhHolidays(YearOf(date)))
    ELSE Weekday(date) = 6 \/ date \in ListToSet(BuildPhHolidays(YearOf(date)))

\* C10: the decision taken for the day just examined is the policy's: major
\* holidays only for J&T; Sundays and all holidays for LBC and for every
\* other courier, which decides as LBC does.
C10_SkipPolicy ==
    (calc.pc \in {"loop", "done"} /\ calc.iterations > 0)
        => /\ calc.skipped = SkipRule(calc.courier_name, calc.current_date)
           /\ \A other \in Couriers \ {"J&T"} :
                  should_skip_date(other, calc.current_date)
                      = should_skip_date("LBC", calc.current_date)

C10_Witness ==
    /\ calc.pc = "loop" /\ calc.iterations > 0
    /\ calc.courier_name = "J&T"
    /\ is_sunday(calc.current_date)
    /\ ~calc.skipped

(***************************************************************************)
(* Properties of the pure functions (checked under SpecFn)                 *)
(***************************************************************************)
\* whole seconds since midnight; the cutoff instant has no fraction of a
\* second, so a time is strictly earlier exactly when its whole seconds are
SecondsOfDay(t) == (t.hour * 60 + t.minute) * 60 + t.second

\* the cutoff instant of a text that reads as hour:minute, in the same unit
CutoffSeconds(text) ==
    LET k == CHOOSE i \in 1..Len(text) : text[i] = ":"
        hh == ParseInt(SubSeq(text, 1, k - 1)).val
        mm == ParseInt(SubSeq(text, k + 1, Len(text))).val
    IN (hh * 60 + mm) * 60

\* C11: check_cutoff_time is true exactly when the cutoff reads as a valid
\* hour:minute and the current time is strictly earlier than that instant of
\* the same day, seconds and microseconds zeroed; it is false at the cutoff
\* instant, after it, and for a malformed cutoff such as "25:99".
C11_BeforeCutoff ==
    fn.op = "check_cutoff_time"
        => LET t == fn.args.current_time
               c == fn.args.cutoff_time
           IN /\ fn.out <=> (CutoffWellFormed(c) /\ SecondsOfDay(t) < CutoffSeconds(c))
              /\ (c = Str_1400 /\ t.hour = 9) => fn.out
              /\ (c = Str_1400 /\ t.hour = 15) => ~fn.out
              /\ (c = Str_1400 /\ SecondsOfDay(t) = 14 * 3600) => ~fn.out
              /\ c = Str_2599 => ~fn.out

C11_Witness ==
    /\ fn.op = "check_cutoff_time"
    /\ fn.args.cutoff_time = Str_1400
    /\ fn.args.current_time = DateTime(Today, 13, 59, 59, 1)
    /\ fn.out

\* C12: get_delivery_confidence is "high" for a ratio of calendar days to
\* base days of at most 1.5, "medium" above 1.5 and up to 2.0, "low" above
\* 2.0, and "high" when base_days is 0 (ratio taken as 1).
C12_ConfidenceBands ==
    fn.op = "get_delivery_confidence"
        => LET b == fn.args.base_days
               t == fn.args.total_calendar_days
           IN /\ b = 0 => fn.out = "high"
              /\ (b > 0 /\ 10 * t <= 15 * b) => fn.out = "high"
              /\ (b > 0 /\ 10 * t > 15 * b /\ 10 * t <= 20 * b) => fn.out = "medium"
              /\ (b > 0 /\ 10 * t > 20 * b) => fn.out = "low"
              /\ (b = 3 /\ t = 4) => fn.out = "high"
              /\ (b = 3 /\ t \in {5, 6}) => fn.out = "medium"
              /\ (b = 3 /\ t = 7) => fn.out = "low"

C12_Witness ==
    /\ fn.op = "get_delivery_confidence"
    /\ fn.args.base_days = 3
    /\ fn.args.total_calendar_days = 7
    /\ fn.out = "low"

\* C14: Easter Sunday is a Sunday between March 22 and April 25, and the Holy
\* Week dates are the three days before it: a Thursday, a Friday, a Saturday.
C14_EasterAndHolyWeek ==
    /\ fn.op = "_calculate_easter"
           => /\ Weekday(fn.out) = 6
              /\ Date(fn.args.year, 3, 22) <= fn.out
              /\ fn.out <= Date(fn.args.year, 4, 25)
    /\ fn.op = "_get_holy_week_dates"
           => LET easter == _calculate_easter(fn.args.year)
              IN /\ fn.out = <<easter - 3, easter - 2, easter - 1>>
                 /\ <<Weekday(fn.out[1]), Weekday(fn.out[2]), Weekday(fn.out[3])>>
                        = <<3, 4, 5>>

C14_Witness ==
    /\ fn.op = "_get_holy_week_dates"
    /\ fn.args.year = 2025
    /\ fn.out = <<Date(2025, 4, 17), Date(2025, 4, 18), Date(2025, 4, 19)>>

(***************************************************************************)
(* Properties of the holiday lists (checked under SpecHolidays)            *)
(***************************************************************************)
\* C15: the list of all holidays of a year is strictly ascending (so without
\* duplicates, also when a Holy Week day falls on April 9), all its dates lie
\* in that year, and every major holiday of the year is in it.
C15_HolidayLists ==
    /\ fn.op = "get_ph_holidays"
           => /\ \A i \in 1..(Len(fn.out) - 1) : fn.out[i] < fn.out[i + 1]
              /\ \A i \in 1..Len(fn.out) :
                     /\ Date(fn.args.year, 1, 1) <= fn.out[i]
                     /\ fn.out[i] <= Date(fn.args.year, 12, 31)
              /\ ListToSet(get_major_ph_holidays(fn.args.year)) \subseteq ListToSet(fn.out)
    /\ fn.op = "get_major_ph_holidays"
           => ListToSet(fn.out) \subseteq ListToSet(get_ph_holidays(fn.args.year))

C15_Witness ==
    /\ fn.op = "get_ph_holidays"
    /\ fn.args.year = 2020
    /\ _get_holy_week_dates(2020)[1] = Date(2020, 4, 9)
    /\ Len(fn.out) = 13
    /\ fn.args.year \in DOMAIN majorHolidayCache

(***************************************************************************)
(* Termination of the calculation (checked under SpecCalcFair)             *)
(***************************************************************************)
\* C18: every calculation ends; it advances one calendar day per iteration,
\* skipped or not, never more than max_iterations times, and a run whose
\* days are all skipped ends exhausted, without a date.
C18_BoundedAdvances ==
    /\ [](calc.pc \in {"loop", "done"} /\ calc.base_days > 0
            => /\ calc.iterations <= calc.max_iterations
               /\ calc.current_date - calc.start_date = calc.iterations
               /\ (calc.pc = "done" /\ calc.days_added < calc.base_days)
                      => (calc.iterations = calc.max_iterations
                            /\ calc.result = NoDate))
    /\ [](calc.pc = "loop" => <>(calc.pc = "done"))

C18_Witness ==
    /\ calc.pc = "done"
    /\ calc.iterations = calc.max_iterations
    /\ calc.iterations >= 3
    /\ calc.days_added = 0
    /\ calc.result = NoDate

(***************************************************************************)
(* The in-flight flag (checked under Spec)                                 *)
(***************************************************************************)
\* C19: the in-flight flag is set exactly while some caller is between
\* claiming it and finishing its fetch; a caller clears only the flag it
\* claimed.  Violated: after empty data or a failed validation with no
\* snapshot, the caller clears the flag at line 65 or 78 and again at line 97,
\* and the second clearing takes the flag from under a caller that claimed it
\* in between and is still fetching.
C19_FlagWhileFetching == fetchInProgress <=> (Fetching # {})

(***************************************************************************)
(* Properties of delivery_estimate (checked under SpecEstimate)            *)
(***************************************************************************)
\* the date a YYYY-MM-DD text names
ParseDate(text) ==
    LET parts == SplitOn(text, "-")
    IN Date(ParseInt(parts[1]).val, ParseInt(parts[2]).val, ParseInt(parts[3]).val)

\* C13: the confidence label of every successful estimate is the
\* classification of that estimate's own ratio of calendar days to base days:
\* it equals get_delivery_confidence(base days, calendar days, courier).
\* Violated: the response is built with the label "high" whatever the ratio.
C13_ConfidenceFromRatio ==
    est.response.ok
        => est.response.confidence_level =
               get_delivery_confidence(est.response.base_delivery_days,
                                       est.response.total_calendar_days,
                                       est.response.courier)

\* the request's get_config call ends in this step
GetConfigEnds == pc[EstThread] # "done" /\ pc'[EstThread] = "done"

C16_Step ==
    \* the configuration error is given only for a get_config call that gave
    \* no snapshot
    /\ (est.response.error_code # "CONFIG_ERROR"
            /\ est'.response.error_code = "CONFIG_ERROR")
           => /\ est.pc = "get_config"
              /\ pc[EstThread] = "done"
              /\ ~IsSnapshot(res[EstThread])
    \* and the call gives none only when the cache holds none
    /\ (GetConfigEnds /\ ~IsSnapshot(res'[EstThread]))
           => cache = NoConfig /\ cache' = NoConfig
    \* a refresh that failed while a snapshot is held gives that snapshot
    /\ (GetConfigEnds /\ pc[EstThread] \in {"fail_check", "handler_check"}
            /\ cache # NoConfig)
           => res'[EstThread] = cache
    \* with which the request goes on, no error given
    /\ (est.pc = "get_config" /\ est'.pc # "get_config" /\ IsSnapshot(res[EstThread]))
           => /\ est'.pc = "resolve"
              /\ est'.config = res[EstThread]
              /\ est'.response = NoResponse
    \* a calculation without a date is the internal error
    /\ (est.pc = "calculate" /\ est'.pc = "done")
           => /\ calc.result = NoDate <=> est'.response.error_code = "INTERNAL_ERROR"
              /\ calc.result # NoDate <=> est'.response.ok

\* C16: delivery_estimate answers CONFIG_ERROR only when get_config could give
\* no snapshot at all, fresh or previous; when the refresh fails (fetch or
\* validation) and a previous snapshot is held, the request goes on with it
\* and no error is given; a calculate_delivery_date failure is answered with
\* INTERNAL_ERROR.
C16_ErrorOutcomes == [][C16_Step]_vars

\* a request that went to the remote source, whose refresh installed nothing
\* (the last install is older than the request), answered with an estimate
C16_Witness ==
    /\ est.pc = "done"
    /\ est.response.ok
    /\ est.fetched
    /\ doneAt # NoTime
    /\ doneAt < est.request_id

\* C17: the start date is the current date in the configured zone when the
\* order is before the cutoff and the next calendar day otherwise; the reported
\* before_cutoff flag agrees with that choice; the reported calendar-day count
\* is the estimated delivery date minus the start date, at least the base days.
C17_StartDateAndDays ==
    est.response.ok
        => LET r == est.response
               today == est.current_time.date
           IN /\ r.before_cutoff <=>
                     (CutoffWellFormed(r.cutoff_time)
                          /\ SecondsOfDay(est.current_time) < CutoffSeconds(r.cutoff_time))
              /\ ParseDate(r.start_date) = IF r.before_cutoff THEN today ELSE today + 1
              /\ r.total_calendar_days =
                     ParseDate(r.estimated_delivery_date) - ParseDate(r.start_date)
              /\ r.total_calendar_days >= r.base_delivery_days

\* an order after the cutoff whose delivery takes more calendar days than
\* base days
C17_Witness ==
    /\ est.pc = "done"
    /\ est.response.ok
    /\ ~est.response.before_cutoff
    /\ est.response.start_date = FormatDate(est.current_time.date + 1)
    /\ est.response.total_calendar_days > est.response.base_delivery_days

(***************************************************************************)
(* Properties of concurrent holiday calls (checked under SpecHolidayThreads)*)
(***************************************************************************)
\* the answer of a call made alone on empty memo tables
HolExpected(h) ==
    HolOut(h, IF h.major_only THEN BuildMajorPhHolidays(h.year)
              ELSE BuildPhHolidays(h.year))

\* C20: under any interleaving of concurrent holiday calls (repeated calls,
\* reads of a memoized year, first population of a year, calls that overlap
\* clear_cache) every call gives the same list or membership answer for its
\* year, and never an error.
\* Violated: a call that found its year memoized reads the list in a later
\* step; a clear_cache in between removes the key and the read raises KeyError.
C20_SameAnswerNoError ==
    \A t \in Threads : hol[t].pc = "done" => hol[t].out = HolExpected(hol[t])

(***************************************************************************)
(* Properties of refresh_config and get_cache_info (checked under          *)
(* SpecTools)                                                              *)
(***************************************************************************)
\* C21: refresh_config answers "success" only if get_config(force_refresh=True)
\* gave it a configuration snapshot; whenever none is available to it, also
\* when it arrives while another caller's first fetch is in flight and nothing
\* is cached, it answers "error", never "success" with no couriers.
\* Violated: with the in-flight flag set, get_config returns the cache as it
\* is, None when nothing is cached, and the response is built as a success.
C21_SuccessHasSnapshot ==
    (fn.op = "refresh_config" /\ fn.out.status = "success") => IsSnapshot(fn.got)

\* C22: get_cache_info changes no cache state (snapshot, fetch time, ttl,
\* in-flight flag), and whenever a snapshot is held its is_stale answer is
\* false exactly when get_config(force_refresh=False) would serve the snapshot
\* without fetching (age < ttl), also at age = ttl and at age 0 with ttl 0.
\* Violated: is_stale is age > ttl, and False for an age of zero, so at
\* age = ttl the snapshot is called fresh while get_config refetches.
C22_Step ==
    (fn.op # "get_cache_info" /\ fn'.op = "get_cache_info")
        => /\ UNCHANGED <<cache, cacheTime, cacheTtl, fetchInProgress>>
           /\ fn'.out.cached => (~fn'.out.is_stale <=> CacheIsValid(FALSE, now))

C22_StaleAgreesWithGetConfig == [][C22_Step]_vars

(***************************************************************************)
(* Properties of two calculations (checked under SpecCalcPair)             *)
(***************************************************************************)
\* both calculations are over, with the same start date, base days and bound,
\* the first for J&T, and both gave a date
BothSucceeded ==
    /\ fn.op = "calculate_delivery_date"
    /\ calc.pc = "done"
    /\ fn.args.courier_name = "J&T"
    /\ calc.courier_name # "J&T"
    /\ calc.start_date = fn.args.start_date
    /\ calc.base_days = fn.args.base_days
    /\ calc.max_iterations = fn.args.max_iterations
    /\ calc.base_days >= 1
    /\ fn.out # NoDate
    /\ calc.result # NoDate

\* C23: for every start date and every base_days >= 1 for which both
\* calculations succeed, calculate_delivery_date for J&T gives a date no later
\* than for LBC or for a courier without a policy of its own: every date
\* skipped for J&T (major holidays only) is skipped for them as well.
C23_JTNoLater == BothSucceeded => fn.out <= calc.result

\* J&T delivers strictly earlier than LBC
C23_Witness == BothSucceeded /\ calc.courier_name = "LBC" /\ fn.out < calc.result

====
